---- MODULE Spec2Model ----
(***************************************************************************)
(* Model of AnalyzeBook (src/orderbook_analyzer.py): the parsing of raw    *)
(* Deribit order-book snapshots into USD-denominated depth frames          *)
(* (extract_data), the per-instrument depth summary (clean_data) and the   *)
(* single-instrument lookups (get_single_book, plot_book).                 *)
(*                                                                         *)
(* A pandas DataFrame is a sequence of rows, a row is a record whose       *)
(* fields are the column labels (the unnamed columns 0 and 1 of a frame    *)
(* built from a list of pairs are the fields c0 and c1).  A Python list is *)
(* a tuple, a JSON object is a function on its keys: a key that is absent  *)
(* from the object is absent from the DOMAIN.  An exception that leaves    *)
(* the called method is recorded in the variable raised.                   *)
(***************************************************************************)
EXTENDS Integers, Sequences, FiniteSets

\* ---------------------------------------------------------------- bounds
\* longest side (number of price levels) of the snapshot explored in detail
MaxDepth == 2
\* most instruments listed at once
MaxBooks == 2
\* largest value given for the levels parameter of clean_data
MaxLevels == 2

\* default of the levels parameter of clean_data
DefaultLevels == 5

\* ---------------------------------------------------------------- inputs
Instruments == {"BTC-C", "BTC-P", "ETH-C"}
\* default of the instrument_name parameter (np.nan): never a listed name
NaN == "nan"
CoinPrices == {0, 3}
Quantities == {0, 1, 4}
UnderlyingPrices == {1, 500}
MarkPrices == {2}
LevelArgs == ((0 - 1) .. MaxLevels) \cup {DefaultLevels}

\* a price level of the exchange's JSON: the pair [price, quantity]
Levels == CoinPrices \X Quantities

SeqsUpTo(S, n) == UNION {[1..k -> S] : k \in 0..n}

\* the sides explored in detail, and the sides used in multi-book batches
DeepSides == SeqsUpTo(Levels, MaxDepth)
ProbeSides == {<<>>, <<<<2, 1>>, <<3, 4>>>>}

\* the "result" object of a get_order_book response; the second set is the
\* responses in which the key underlying_price is absent
SnapshotsOf(names, underlying, bidSides, askSides) ==
     [instrument_name : names, underlying_price : underlying,
      mark_price : MarkPrices, bids : bidSides, asks : askSides]
  \cup
     [instrument_name : names, mark_price : MarkPrices,
      bids : bidSides, asks : askSides]

\* one listed instrument whose book is explored in detail on one side
DeepExchanges ==
  {<<s>> : s \in
     SnapshotsOf({"BTC-C"}, UnderlyingPrices, DeepSides, ProbeSides)
       \cup SnapshotsOf({"BTC-C"}, UnderlyingPrices, ProbeSides, DeepSides)}

\* up to MaxBooks listed instruments, with distinct names
ProbeExchanges ==
  {e \in SeqsUpTo(SnapshotsOf(Instruments, {500}, ProbeSides, ProbeSides),
                  MaxBooks) :
     \A i, j \in 1..Len(e) :
        e[i].instrument_name = e[j].instrument_name => i = j}

VARIABLES exchange, call, raised, fetched, store, summary, book, shown
vars == <<exchange, call, raised, fetched, store, summary, book, shown>>

\* ---------------------------------------------------------------- helpers
Min(a, b) == IF a <= b THEN a ELSE b
Max(a, b) == IF a >= b THEN a ELSE b

RECURSIVE Sum(_)
\* Series.sum()
Sum(xs) == IF Len(xs) = 0 THEN 0 ELSE xs[1] + Sum(Tail(xs))

RECURSIVE CumSumFrom(_, _)
CumSumFrom(xs, acc) ==
  IF Len(xs) = 0 THEN <<>>
  ELSE <<acc + xs[1]>> \o CumSumFrom(Tail(xs), acc + xs[1])

\* a cumsum that does not carry the total from one row to the next
CumSumNoCarry(xs) == xs

\* Series.cumsum(): the running total, starting from the first row
CumSum(xs) == CumSumFrom(xs, 0)

\* pd.DataFrame(list of [price, quantity] pairs): columns 0 and 1
DataFrame(levels) ==
  [i \in 1..Len(levels) |-> [c0 |-> levels[i][1], c1 |-> levels[i][2]]]

\* the column of a frame as a sequence
Column(frame, c) == [i \in 1..Len(frame) |-> frame[i][c]]

\* the USD price taken from the quantity column
UsdPriceOfQuantity(frame, u) == [i \in 1..Len(frame) |-> frame[i].c1 * u]

\* frame.iloc[:, 0] * underlying_price
UsdPrice(frame, u) == [i \in 1..Len(frame) |-> frame[i].c0 * u]

\* usd_price * quantity, row by row
TotalUsd(usd, qty) == [i \in 1..Len(usd) |-> usd[i] * qty[i]]

\* lines 88-91 (bids) and 93-96 (asks): add usd_price, rename the three
\* columns to coin_price, quantity, usd_price, add total_usd and
\* cumulative_usd
AddUsdColumns(frame, u) ==
  LET usd == UsdPrice(frame, u)
      tot == TotalUsd(usd, Column(frame, "c1"))
      cum == CumSum(tot)
  IN  [i \in 1..Len(frame) |->
         [coin_price |-> frame[i].c0, quantity |-> frame[i].c1,
          usd_price |-> usd[i], total_usd |-> tot[i],
          cumulative_usd |-> cum[i]]]

\* the body of the loop of extract_data for one response s (lines 78-98):
\* the entry [instrument_name, bids, asks] appended to store, or the
\* exception raised by s["underlying_price"]
ParseSnapshot(s) ==
  LET bids == DataFrame(s.bids)
      asks == DataFrame(s.asks)
  IN  IF Len(bids) = 0
        THEN [raised |-> "none", entry |-> <<s.instrument_name, <<>>, asks>>]
      ELSE IF Len(asks) = 0
        THEN [raised |-> "none", entry |-> <<s.instrument_name, bids, <<>>>>]
      ELSE IF "underlying_price" \notin DOMAIN s
        THEN [raised |-> "KeyError", entry |-> <<>>]
      ELSE [raised |-> "none",
            entry |-> <<s.instrument_name,
                        AddUsdColumns(bids, s.underlying_price),
                        AddUsdColumns(asks, s.underlying_price)>>]

\* ------------------------------------------------------------ collaborators
\* get_instruments (lines 22-38): the listed options, each with the URL of
\* its order book.  The frame built at line 32 from a listing without any
\* instrument has no column, and selecting [["instrument_name"]] from it
\* raises KeyError.
GetInstruments ==
  IF Len(exchange) = 0 THEN [raised |-> "KeyError", x |-> <<>>]
  ELSE [raised |-> "none",
        x |-> [i \in 1..Len(exchange) |->
                 [instrument_name |-> exchange[i].instrument_name,
                  instrument_url |->
                    <<"get_order_book", exchange[i].instrument_name>>]]]

\* requests.get(url).json() on an order-book URL
GetOrderBook(url) ==
  [result |-> exchange[CHOOSE i \in 1..Len(exchange) :
                          exchange[i].instrument_name = url[2]]]

\* get_all_data (lines 40-55): one response per listed option, in the order
\* of the URLs; the exception of get_instruments (line 44) leaves it
GetAllData ==
  LET df == GetInstruments
      urls == Column(df.x, "instrument_url")
  IN  IF df.raised # "none" THEN [raised |-> df.raised, results |-> <<>>]
      ELSE [raised |-> "none",
            results |-> [i \in 1..Len(urls) |-> GetOrderBook(urls[i])]]

\* line 73 without the [0]: the URLs, in the listing url, of the options
\* called name
MatchingUrls(url, name) ==
  Column(SelectSeq(url, LAMBDA x : x.instrument_name = name),
         "instrument_url")

\* ------------------------------------------------------------ extract_data
RECURSIVE ParseAll(_, _, _)
\* the loop of lines 77-102 over the responses r; an exception ends the call
\* and nothing is returned
ParseAll(r, manual, acc) ==
  IF Len(r) = 0 THEN [raised |-> "none", store |-> acc]
  ELSE LET s == r[1].result
           p == ParseSnapshot(s)
       IN  IF p.raised # "none" THEN [raised |-> p.raised, store |-> <<>>]
           ELSE ParseAll(Tail(r), manual,
                         IF manual THEN acc \o <<p.entry, s.mark_price>>
                         ELSE Append(acc, p.entry))

\* extract_data(manual, instrument_name) (lines 57-103): what it raises, how
\* many order books it requested and the store it returns
ExtractData(manual, instrument_name) ==
  IF ~manual
    THEN LET r == GetAllData
             p == ParseAll(r.results, manual, <<>>)
         IN  IF r.raised # "none"
               THEN [fetched |-> 0, raised |-> r.raised, store |-> <<>>]
             ELSE [fetched |-> Len(r.results), raised |-> p.raised,
                   store |-> p.store]
  ELSE LET url == GetInstruments
           d == MatchingUrls(url.x, instrument_name)
       IN  IF url.raised # "none"
             THEN [fetched |-> 0, raised |-> url.raised, store |-> <<>>]
           ELSE IF Len(d) = 0
             THEN [fetched |-> 0, raised |-> "IndexError", store |-> <<>>]
           ELSE LET p == ParseAll(<<GetOrderBook(d[1])>>, manual, <<>>)
                IN  [fetched |-> 1, raised |-> p.raised, store |-> p.store]

\* -------------------------------------------------------------- clean_data
\* line 128: the option is skipped when either side has no level
Illiquid(s) == (Len(s[2]) = 0) \/ (Len(s[3]) = 0)

\* a head that ignores n
FrameHeadAll(frame, n) == frame

\* DataFrame.head(n): the first n rows, or all but the last -n rows when n
\* is negative
FrameHead(frame, n) ==
  IF n >= 0 THEN SubSeq(frame, 1, Min(n, Len(frame)))
  ELSE SubSeq(frame, 1, Max(Len(frame) + n, 0))

\* x / 1000 for a whole number x >= 0, as an exact decimal: the whole part
\* and the thousandths
Thousands(x) == [whole |-> x \div 1000, milli |-> x % 1000]

\* lines 132-148: the row [name, bids in thousands, asks in thousands] of a
\* liquid option
DepthRow(s, top_book, levels) ==
  IF top_book
    THEN <<s[1],
           Thousands(Sum(Column(FrameHead(s[2], levels), "total_usd"))),
           Thousands(Sum(Column(FrameHead(s[3], levels), "total_usd")))>>
  ELSE <<s[1],
         Thousands(Sum(Column(s[2], "total_usd"))),
         Thousands(Sum(Column(s[3], "total_usd")))>>

\* a row put in front of the list
PrependRow(df, row) == <<row>> \o df

\* df.append(row)
AppendRow(df, row) == Append(df, row)

RECURSIVE DepthRowsReset(_, _, _, _)
\* a loop that empties df at every option (df = [] inside the loop)
DepthRowsReset(st, top_book, levels, df) ==
  IF Len(st) = 0 THEN df
  ELSE DepthRowsReset(Tail(st), top_book, levels,
                      IF Illiquid(st[1]) THEN <<>>
                      ELSE <<DepthRow(st[1], top_book, levels)>>)

RECURSIVE DepthRows(_, _, _, _)
\* the loop of lines 121-148 over store, from the list df built so far
DepthRows(st, top_book, levels, df) ==
  IF Len(st) = 0 THEN df
  ELSE DepthRows(Tail(st), top_book, levels,
                 IF Illiquid(st[1]) THEN df
                 ELSE AppendRow(df, DepthRow(st[1], top_book, levels)))

\* lines 149-150: pd.DataFrame(df) and the assignment of the three column
\* labels; a frame built from an empty list has no column and the
\* assignment raises ValueError (length mismatch)
LabelColumns(df) ==
  IF Len(df) = 0 THEN [raised |-> "ValueError", r |-> <<>>]
  ELSE [raised |-> "none",
        r |-> [i \in 1..Len(df) |->
                 [product_name |-> df[i][1], bids_thousands |-> df[i][2],
                  asks_thousands |-> df[i][3]]]]

\* ---------------------------------------------------------------- actions
NoFigure == [kind |-> "none"]

Init ==
  /\ exchange \in DeepExchanges \cup ProbeExchanges
  /\ call = [op |-> "none", manual |-> FALSE, instrument_name |-> NaN,
             top_book |-> FALSE, levels |-> DefaultLevels]
  /\ raised = "none"
  /\ fetched = 0
  /\ store = <<>>
  /\ summary = <<>>
  /\ book = <<>>
  /\ shown = NoFigure

\* extract_data() with the defaults: every listed option
ExtractAll ==
  LET x == ExtractData(FALSE, NaN)
  IN  /\ call' = [op |-> "extract_data", manual |-> FALSE,
                  instrument_name |-> NaN, top_book |-> FALSE,
                  levels |-> DefaultLevels]
      /\ raised' = x.raised
      /\ fetched' = x.fetched
      /\ store' = x.store
      /\ summary' = <<>>
      /\ book' = <<>>
      /\ shown' = NoFigure
      /\ UNCHANGED exchange

\* extract_data(manual=True, instrument_name=name)
ExtractManual(name) ==
  LET x == ExtractData(TRUE, name)
  IN  /\ call' = [op |-> "extract_data", manual |-> TRUE,
                  instrument_name |-> name, top_book |-> FALSE,
                  levels |-> DefaultLevels]
      /\ raised' = x.raised
      /\ fetched' = x.fetched
      /\ store' = x.store
      /\ summary' = <<>>
      /\ book' = <<>>
      /\ shown' = NoFigure
      /\ UNCHANGED exchange

\* clean_data(top_book, levels) (lines 105-151)
CleanData(top_book, levels) ==
  LET x == ExtractData(FALSE, NaN)
      df == DepthRows(x.store, top_book, levels, <<>>)
      r == LabelColumns(df)
  IN  /\ call' = [op |-> "clean_data", manual |-> FALSE,
                  instrument_name |-> NaN, top_book |-> top_book,
                  levels |-> levels]
      /\ fetched' = x.fetched
      /\ store' = x.store
      /\ raised' = IF x.raised # "none" THEN x.raised ELSE r.raised
      /\ summary' = IF x.raised # "none" THEN <<>> ELSE r.r
      /\ book' = <<>>
      /\ shown' = NoFigure
      /\ UNCHANGED exchange

\* the series drawn by plt.plot (lines 175-186): coin price against
\* cumulative USD in thousands
DepthSeries(frame) ==
  [i \in 1..Len(frame) |->
     <<frame[i].coin_price, Thousands(frame[i].cumulative_usd)>>]

\* plot_book(instrument_name) (lines 153-194)
PlotBook(name) ==
  LET x == ExtractData(TRUE, name)
  IN  /\ call' = [op |-> "plot_book", manual |-> TRUE,
                  instrument_name |-> name, top_book |-> FALSE,
                  levels |-> DefaultLevels]
      /\ raised' = x.raised
      /\ fetched' = x.fetched
      /\ store' = x.store
      /\ summary' = <<>>
      /\ book' = <<>>
      /\ shown' =
           IF x.raised # "none" THEN NoFigure
           ELSE IF Illiquid(x.store[1])
             THEN [kind |-> "message",
                   text |-> "Bid or Ask Orderbook Empty - choose another option"]
           ELSE [kind |-> "figure", title |-> x.store[1][1],
                 bids |-> DepthSeries(x.store[1][2]),
                 asks |-> DepthSeries(x.store[1][3]),
                 mark |-> x.store[2]]
      /\ UNCHANGED exchange

\* get_single_book(instrument_name) (lines 196-204)
GetSingleBook(name) ==
  LET x == ExtractData(TRUE, name)
  IN  /\ call' = [op |-> "get_single_book", manual |-> TRUE,
                  instrument_name |-> name, top_book |-> FALSE,
                  levels |-> DefaultLevels]
      /\ raised' = x.raised
      /\ fetched' = x.fetched
      /\ store' = x.store
      /\ summary' = <<>>
      /\ book' = IF x.raised # "none" THEN <<>>
                 ELSE <<x.store[1][2], x.store[1][3]>>
      /\ shown' = NoFigure
      /\ UNCHANGED exchange

Next ==
  \/ ExtractAll
  \/ \E name \in Instruments : ExtractManual(name)
  \/ CleanData(FALSE, DefaultLevels)
  \/ \E levels \in LevelArgs : CleanData(TRUE, levels)
  \/ \E name \in Instruments : PlotBook(name)
  \/ \E name \in Instruments : GetSingleBook(name)

Spec == Init /\ [][Next]_vars

\* ------------------------------------------------------------- properties
\* The names the specification gives to the exceptions of the code: a
\* failed lookup ([0] of an empty list) is its InvalidParameterError, a
\* missing key of a response is its MalformedSnapshotError.
InvalidParameterError == {"IndexError"}
MalformedSnapshotError == {"KeyError"}

\* a raw snapshot with at least one level on both sides
RawLiquid(s) == Len(s.bids) > 0 /\ Len(s.asks) > 0
HasUnderlying(s) == "underlying_price" \in DOMAIN s

\* the snapshots the last call asked the exchange for, in request order
Requested ==
  IF call.manual
    THEN SelectSeq(exchange,
                   LAMBDA s : s.instrument_name = call.instrument_name)
  ELSE exchange

\* the [name, bids, asks] entries of store (without the mark prices)
Entries ==
  IF call.manual THEN (IF Len(store) = 0 THEN <<>> ELSE <<store[1]>>)
  ELSE store

\* a call has run and has parsed every snapshot it asked for
Parsed == call.op # "none" /\ Len(store) > 0 /\ Len(Entries) = Len(Requested)

\* frame holds, level by level and in the same order, the raw levels with
\* their USD price and USD notional
UsdLevels(frame, raw, u) ==
  /\ Len(frame) = Len(raw)
  /\ \A j \in 1..Len(raw) :
       /\ frame[j].coin_price = raw[j][1]
       /\ frame[j].quantity = raw[j][2]
       /\ frame[j].usd_price = raw[j][1] * u
       /\ frame[j].total_usd = raw[j][1] * u * raw[j][2]

\* C1: for every snapshot with both sides non-empty, each side of the parsed
\* entry has the same levels in the same order, none dropped or added, and
\* the level (p, q) carries usd_price = p*u and total_usd = p*u*q
C1_UsdPriceAndNotional ==
  Parsed =>
    \A i \in 1..Len(Requested) :
      RawLiquid(Requested[i]) =>
        /\ UsdLevels(Entries[i][2], Requested[i].bids,
                     Requested[i].underlying_price)
        /\ UsdLevels(Entries[i][3], Requested[i].asks,
                     Requested[i].underlying_price)

\* a two-sided book was parsed whose bids are a zero-price level followed
\* by a level with a positive notional
C1_Witness ==
  /\ Parsed
  /\ \E i \in 1..Len(Requested) :
       /\ RawLiquid(Requested[i])
       /\ Len(Entries[i][2]) = 2
       /\ Entries[i][2][1].coin_price = 0
       /\ Entries[i][2][1].quantity > 0
       /\ Entries[i][2][2].total_usd > 0

\* the sides of the parsed entries that carry the USD columns
NormalizedSides ==
  {Entries[i][k] : i \in 1..Len(Entries), k \in {2, 3}} \
     {f \in {Entries[i][k] : i \in 1..Len(Entries), k \in {2, 3}} :
        Len(f) = 0 \/ "cumulative_usd" \notin DOMAIN f[1]}

\* C2: on every normalized non-empty side cumulative_usd at a level is the
\* sum of total_usd from the best level to that level, and never decreases
C2_CumulativeIsPrefixSum ==
  Parsed =>
    \A f \in NormalizedSides :
      /\ \A j \in 1..Len(f) :
           f[j].cumulative_usd = Sum(SubSeq(Column(f, "total_usd"), 1, j))
      /\ \A j \in 2..Len(f) : f[j - 1].cumulative_usd <= f[j].cumulative_usd

\* a normalized side of two levels whose running total grows at the second
C2_Witness ==
  /\ Parsed
  /\ \E f \in NormalizedSides :
       /\ Len(f) = 2
       /\ f[1].total_usd > 0
       /\ f[2].cumulative_usd > f[1].cumulative_usd

\* the rows of the summary that carry the name of a snapshot
RowsOf(s) ==
  {k \in 1..Len(summary) : summary[k].product_name = s.instrument_name}

\* C3: a book with an empty side contributes no row to the summary whatever
\* its other side holds; when clean_data returns, every book with both
\* sides non-empty contributes exactly one row
C3_IlliquidExcluded ==
  call.op = "clean_data" =>
    \A i \in 1..Len(exchange) :
      /\ ~RawLiquid(exchange[i]) => RowsOf(exchange[i]) = {}
      /\ (raised = "none" /\ RawLiquid(exchange[i]))
            => Cardinality(RowsOf(exchange[i])) = 1

\* clean_data returned a summary of a batch that holds a two-sided book and
\* a book with levels on the ask side only
C3_Witness ==
  /\ call.op = "clean_data"
  /\ raised = "none"
  /\ \E i, j \in 1..Len(exchange) :
       /\ RawLiquid(exchange[i])
       /\ Len(exchange[j].bids) = 0
       /\ Len(exchange[j].asks) > 0

RECURSIVE NotionalOfFirst(_, _, _)
\* the USD notional of the first k raw levels
NotionalOfFirst(raw, u, k) ==
  IF k = 0 THEN 0
  ELSE NotionalOfFirst(raw, u, k - 1) + raw[k][1] * u * raw[k][2]

\* the number of levels of a raw side that the last call of clean_data sums
LevelsCounted(raw) ==
  IF call.top_book THEN Min(call.levels, Len(raw)) ELSE Len(raw)

\* d is the decimal x / 1000
IsThousandsOf(d, x) ==
  d.whole * 1000 + d.milli = x /\ d.milli \in 0..999

\* C4: with a positive levels (or none) the row of a liquid book carries, on
\* each side, the notional of the first k levels divided by 1000, where k
\* is the length of the side, capped at levels when top_book is set
C4_TopLevelsSum ==
  (call.op = "clean_data" /\ raised = "none"
     /\ (call.top_book => call.levels > 0)) =>
    \A i \in 1..Len(exchange) : \A k \in RowsOf(exchange[i]) :
      /\ IsThousandsOf(summary[k].bids_thousands,
           NotionalOfFirst(exchange[i].bids, exchange[i].underlying_price,
                           LevelsCounted(exchange[i].bids)))
      /\ IsThousandsOf(summary[k].asks_thousands,
           NotionalOfFirst(exchange[i].asks, exchange[i].underlying_price,
                           LevelsCounted(exchange[i].asks)))

\* clean_data(top_book=True, levels=1) summarised a book whose bids have a
\* second level with a positive notional, left out of the row
C4_Witness ==
  /\ call.op = "clean_data" /\ raised = "none"
  /\ call.top_book /\ call.levels = 1
  /\ \E i \in 1..Len(exchange) :
       /\ RowsOf(exchange[i]) # {}
       /\ Len(exchange[i].bids) = 2
       /\ exchange[i].bids[2][1] * exchange[i].bids[2][2] > 0
       /\ exchange[i].bids[1][1] * exchange[i].bids[1][2] > 0

\* C5: when clean_data returns, the names of its rows are the names of the
\* liquid books in the order of the input, once each
C5_OrderPreserved ==
  (call.op = "clean_data" /\ raised = "none") =>
    Column(summary, "product_name")
      = Column(SelectSeq(exchange, RawLiquid), "instrument_name")

\* two liquid books listed as ETH-C then BTC-C were summarised
C5_Witness ==
  /\ call.op = "clean_data" /\ raised = "none"
  /\ Len(exchange) = 2
  /\ RawLiquid(exchange[1]) /\ RawLiquid(exchange[2])
  /\ exchange[1].instrument_name = "ETH-C"
  /\ exchange[2].instrument_name = "BTC-C"

\* C6: clean_data with top_book set and levels zero or negative ends in an
\* InvalidParameterError and returns no row (stated for the batches that
\* hold a liquid book with its underlying price, the ones whose levels
\* reach head(levels) at lines 136-137)
C6_NonPositiveLevelsRejected ==
  (/\ call.op = "clean_data" /\ call.top_book /\ call.levels <= 0
   /\ \A i \in 1..Len(exchange) : HasUnderlying(exchange[i])
   /\ \E j \in 1..Len(exchange) : RawLiquid(exchange[j])) =>
    raised \in InvalidParameterError /\ summary = <<>>

\* C7: parsing a snapshot without underlying_price whose bids are not empty
\* ends in a MalformedSnapshotError and returns no book, whether its asks
\* are empty or not
C7_MissingUnderlyingRejected ==
  (/\ call.op = "extract_data"
   /\ \E i \in 1..Len(Requested) :
        ~HasUnderlying(Requested[i]) /\ Len(Requested[i].bids) > 0) =>
    raised \in MalformedSnapshotError /\ store = <<>>

\* frame carries the USD columns of the raw side, level by level
NormalizedAs(frame, raw, u) ==
  /\ Len(frame) = Len(raw)
  /\ \A j \in 1..Len(raw) :
       /\ {"usd_price", "total_usd", "cumulative_usd"} \subseteq DOMAIN frame[j]
       /\ frame[j].usd_price = raw[j][1] * u
       /\ frame[j].total_usd = raw[j][1] * u * raw[j][2]
       /\ frame[j].cumulative_usd = NotionalOfFirst(raw, u, j)

\* C8: each side is parsed on its own: in a snapshot with exactly one side
\* empty the empty side becomes an empty sequence and the other side
\* carries the USD columns of its levels as it would in a two-sided book
C8_SidesIndependent ==
  Parsed =>
    \A i \in 1..Len(Requested) :
      (HasUnderlying(Requested[i])
         /\ (Len(Requested[i].bids) = 0) # (Len(Requested[i].asks) = 0)) =>
        /\ NormalizedAs(Entries[i][2], Requested[i].bids,
                        Requested[i].underlying_price)
        /\ NormalizedAs(Entries[i][3], Requested[i].asks,
                        Requested[i].underlying_price)

\* C9: a single-book lookup of a name that no listed instrument carries
\* ends in an InvalidParameterError, requests no order book and returns
\* no book
C9_UnknownInstrumentRejected ==
  (call.manual /\ Len(Requested) = 0) =>
    /\ raised \in InvalidParameterError
    /\ fetched = 0
    /\ store = <<>>
    /\ book = <<>>
    /\ shown = NoFigure

\* C10: clean_data over a batch without any liquid book (or an empty batch)
\* returns normally, with no row
C10_AllIlliquidReturnsEmpty ==
  (/\ call.op = "clean_data"
   /\ \A i \in 1..Len(exchange) : ~RawLiquid(exchange[i])) =>
    raised = "none" /\ summary = <<>>

====
